---- MODULE Spec2Model ----
(***************************************************************************)
(* srs (Secure Rust Storage): the encrypted token store of                 *)
(* src/src/storage.rs on top of the envelope cipher of src/src/crypto.rs.  *)
(*                                                                         *)
(* A byte is a number in 0..255.  A base64 character is represented by     *)
(* its index in the STANDARD alphabet (0..63); Pad is '='.  Text (a Rust   *)
(* String holding a secret or a master secret) is the sequence of its      *)
(* UTF-8 bytes.                                                            *)
(***************************************************************************)
EXTENDS Integers, Sequences, FiniteSets, TLC

\* ------------------------------------------------------------------ bounds
\* Operations (open, put, get, list, delete, export, exit) in one behaviour.
MaxOps == 4

\* --------------------------------------------------------- program constants
NonceLen == 12
KeyLen == 32
TagLen == 16
Pad == 64
\* a character outside the STANDARD alphabet, as the '_' of "not_base64"
BadChar == 65

\* ------------------------------------------------------------ input domains
Procs == {"p1", "p2"}
Names == {"foo", "baz"}
\* "1" and "bar"
Plaintexts == {<<49>>, <<98, 97, 114>>}
\* the master secrets typed at the prompt: "k" and "pw"
Secrets == {<<107>>, <<112, 119>>}
\* what the thread RNG fills the nonce with
Nonces == {[i \in 1..NonceLen |-> IF i = NonceLen THEN r ELSE (17 * i) % 256] : r \in {1, 2}}

RECURSIVE SumBytes(_)
SumBytes(b) == IF Len(b) = 0 THEN 0 ELSE b[1] + SumBytes(Tail(b))

\* ------------------------------------------------------------------ base64
\* general_purpose::STANDARD.encode: every 3 bytes give 4 characters, the
\* last group '=' padded.
Base64Encode(b) ==
    LET n == Len(b)
        byte(k) == IF k <= n THEN b[k] ELSE 0
        char(j) ==
            LET g == 3 * ((j - 1) \div 4)
                r == (j - 1) % 4
            IN  IF r = 0 THEN byte(g + 1) \div 4
                ELSE IF r = 1 THEN (byte(g + 1) % 4) * 16 + (byte(g + 2) \div 16)
                ELSE IF r = 2 THEN
                    IF g + 2 > n THEN Pad ELSE (byte(g + 2) % 16) * 4 + (byte(g + 3) \div 64)
                ELSE IF g + 3 > n THEN Pad ELSE byte(g + 3) % 64
    IN  [j \in 1..(4 * ((n + 2) \div 3)) |-> char(j)]

\* general_purpose::STANDARD.decode: groups of four characters, padding
\* only at the end of the last group, canonical, trailing bits zero.
Base64Decode(s) ==
    LET n == Len(s)
        pads == IF n = 0 THEN 0
                ELSE IF s[n] # Pad THEN 0
                ELSE IF s[n - 1] # Pad THEN 1 ELSE 2
        valid ==
            /\ n % 4 = 0
            /\ \A j \in 1..(n - pads) : s[j] < Pad
            /\ \A j \in (n - pads + 1)..n : s[j] = Pad
            /\ pads = 1 => s[n - 1] % 4 = 0
            /\ pads = 2 => s[n - 2] % 16 = 0
        sext(j) == IF s[j] = Pad THEN 0 ELSE s[j]
        byte(k) ==
            LET g == 4 * ((k - 1) \div 3)
                r == (k - 1) % 3
            IN  IF r = 0 THEN sext(g + 1) * 4 + (sext(g + 2) \div 16)
                ELSE IF r = 1 THEN (sext(g + 2) % 16) * 16 + (sext(g + 3) \div 4)
                ELSE (sext(g + 3) % 4) * 64 + sext(g + 4)
    IN  IF valid THEN [ok |-> TRUE, bytes |-> [k \in 1..(3 * (n \div 4) - pads) |-> byte(k)]]
        ELSE [ok |-> FALSE, bytes |-> <<>>]

\* ------------------------------------------------------------------- UTF-8
Cont(x) == x >= 128 /\ x <= 191

\* String::from_utf8: is b well-formed UTF-8?
RECURSIVE IsUtf8(_)
IsUtf8(b) ==
    IF Len(b) = 0 THEN TRUE
    ELSE IF b[1] < 128 THEN IsUtf8(Tail(b))
    ELSE IF b[1] >= 194 /\ b[1] <= 223 THEN
        Len(b) >= 2 /\ Cont(b[2]) /\ IsUtf8(SubSeq(b, 3, Len(b)))
    ELSE IF b[1] >= 224 /\ b[1] <= 239 THEN
        /\ Len(b) >= 3 /\ Cont(b[2]) /\ Cont(b[3])
        /\ (b[1] = 224 => b[2] >= 160)
        /\ (b[1] = 237 => b[2] <= 159)
        /\ IsUtf8(SubSeq(b, 4, Len(b)))
    ELSE IF b[1] >= 240 /\ b[1] <= 244 THEN
        /\ Len(b) >= 4 /\ Cont(b[2]) /\ Cont(b[3]) /\ Cont(b[4])
        /\ (b[1] = 240 => b[2] >= 144)
        /\ (b[1] = 244 => b[2] <= 143)
        /\ IsUtf8(SubSeq(b, 5, Len(b)))
    ELSE FALSE

\* ------------------------------------------------------ AES-256-GCM (crate)
\* The aes_gcm crate is not part of the repository.  It is modelled by an
\* additive stream cipher with a keyed tag over (key, nonce, ciphertext):
\* what crypto.rs relies on is that decryption inverts encryption under the
\* same key and nonce and that the tag check fails under another key.
KeyStream(key, nonce, i) ==
    (key[((i - 1) % KeyLen) + 1] + nonce[((i - 1) % NonceLen) + 1] + i) % 256

GcmTag(key, nonce, ct) ==
    LET h == SumBytes(ct) + Len(ct)
    IN  [i \in 1..TagLen |-> (key[i] * 7 + nonce[((i - 1) % NonceLen) + 1] * 3 + h + i) % 256]

\* cipher.encrypt(nonce, plaintext): ciphertext followed by the tag
AeadEncrypt(key, nonce, pt) ==
    LET ct == [i \in 1..Len(pt) |-> (pt[i] + KeyStream(key, nonce, i)) % 256]
    IN  ct \o GcmTag(key, nonce, ct)

\* cipher.decrypt(nonce, ciphertext): Err when the tag does not verify
AeadDecrypt(key, nonce, body) ==
    IF Len(body) < TagLen THEN [ok |-> FALSE, bytes |-> <<>>]
    ELSE LET n == Len(body) - TagLen
             ct == SubSeq(body, 1, n)
             tag == SubSeq(body, n + 1, Len(body))
         IN  IF tag # GcmTag(key, nonce, ct) THEN [ok |-> FALSE, bytes |-> <<>>]
             ELSE [ok |-> TRUE,
                   bytes |-> [i \in 1..n |-> (ct[i] + 256 - KeyStream(key, nonce, i)) % 256]]

\* --------------------------------------------------------------- crypto.rs
\* derive_master_key: SHA-256 of the typed secret, 32 bytes.  The digest is
\* modelled by a mixing function that separates the secrets of the model.
derive_master_key(input) ==
    [i \in 1..KeyLen |-> (SumBytes(input) * 31 + Len(input) * i + i) % 256]

\* CryptoManager::encrypt, with the nonce the RNG produced
\* encrypt sealing under one fixed nonce instead of the one drawn
encrypt_fixed_nonce(master_key, plaintext, nonce_bytes) ==
    LET fixed == [i \in 1..NonceLen |-> 0]
    IN  Base64Encode(fixed \o AeadEncrypt(master_key, fixed, plaintext))

\* encrypt returning the ciphertext and tag without the nonce in front
encrypt_no_nonce(master_key, plaintext, nonce_bytes) ==
    Base64Encode(AeadEncrypt(master_key, nonce_bytes, plaintext))

encrypt(master_key, plaintext, nonce_bytes) ==
    Base64Encode(nonce_bytes \o AeadEncrypt(master_key, nonce_bytes, plaintext))

Failure(kind) == [ok |-> FALSE, err |-> kind, text |-> <<>>]

\* decrypt that removes the key stream without looking at the tag
decrypt_unauthenticated(master_key, encrypted_data) ==
    LET dec == Base64Decode(encrypted_data)
    IN  IF ~dec.ok THEN Failure("MalformedEnvelope")
        ELSE IF Len(dec.bytes) < NonceLen + TagLen THEN Failure("MalformedEnvelope")
        ELSE LET nonce_bytes == SubSeq(dec.bytes, 1, NonceLen)
                 n == Len(dec.bytes) - NonceLen - TagLen
                 plain == [i \in 1..n |->
                             (dec.bytes[NonceLen + i] + 256 - KeyStream(master_key, nonce_bytes, i)) % 256]
             IN  IF ~IsUtf8(plain) THEN Failure("EncodingFailure")
                 ELSE [ok |-> TRUE, err |-> "", text |-> plain]

\* CryptoManager::decrypt.  The error kinds name the four map_err/return
\* sites: base64 and length (MalformedEnvelope), the AEAD
\* (AuthenticationFailure), from_utf8 (EncodingFailure).
decrypt(master_key, encrypted_data) ==
    LET dec == Base64Decode(encrypted_data)
    IN  IF ~dec.ok THEN Failure("MalformedEnvelope")
        ELSE IF Len(dec.bytes) < NonceLen THEN Failure("MalformedEnvelope")
        ELSE LET nonce_bytes == SubSeq(dec.bytes, 1, NonceLen)
                 ciphertext == SubSeq(dec.bytes, NonceLen + 1, Len(dec.bytes))
                 plain == AeadDecrypt(master_key, nonce_bytes, ciphertext)
             IN  IF ~plain.ok THEN Failure("AuthenticationFailure")
                 ELSE IF ~IsUtf8(plain.bytes) THEN Failure("EncodingFailure")
                 ELSE [ok |-> TRUE, err |-> "", text |-> plain.bytes]

\* The values the model's inputs make encrypt and decrypt take, computed once.
Keys == {derive_master_key(input) : input \in Secrets}
EncryptMemo == [k \in Keys, t \in Plaintexts, n \in Nonces |-> encrypt(k, t, n)]
Envelopes == {EncryptMemo[x] : x \in DOMAIN EncryptMemo}
DecryptMemo == [k \in Keys, e \in Envelopes |-> decrypt(k, e)]

\* self.crypto_manager.encrypt(token)
CryptoEncrypt(master_key, plaintext, nonce_bytes) ==
    IF <<master_key, plaintext, nonce_bytes>> \in DOMAIN EncryptMemo
    THEN EncryptMemo[master_key, plaintext, nonce_bytes]
    ELSE encrypt(master_key, plaintext, nonce_bytes)

\* self.crypto_manager.decrypt(encrypted_token)
CryptoDecrypt(master_key, encrypted_data) ==
    IF <<master_key, encrypted_data>> \in DOMAIN DecryptMemo
    THEN DecryptMemo[master_key, encrypted_data]
    ELSE decrypt(master_key, encrypted_data)

\* ------------------------------------------------------------- storage.rs
VARIABLES
    keyring,    \* the password of keyring entry ("srs", "thenicekat"): the backing medium
    storage,    \* per process: its TokenStorage (database, crypto_manager.master_key)
    last,       \* outcome of the operation performed last
    nOps,       \* operations performed so far
    cipher      \* a CryptoManager call in progress, statement by statement

vars == <<keyring, storage, last, nOps, cipher>>

\* TokenDatabase.tokens: HashMap<String, String>, a function on the names present
EmptyTokens == [x \in {} |-> <<>>]

Insert(tokens, name, value) ==
    [x \in (DOMAIN tokens) \cup {name} |-> IF x = name THEN value ELSE tokens[x]]

Remove(tokens, name) == [x \in (DOMAIN tokens) \ {name} |-> tokens[x]]

\* The orders in which a HashMap may hand out its keys.
Orders(S) ==
    {o \in [1..Cardinality(S) -> S] : \A i, j \in 1..Cardinality(S) : i # j => o[i] # o[j]}

\* The persisted document is JSON text, modelled as its token sequence:
\*   { "tokens" { entry* } }
Tok(t) == [t |-> t, k |-> "", v |-> <<>>]
EntryTok(k, v) == [t |-> "entry", k |-> k, v |-> v]

\* serde_json::to_string_pretty(&self.database), the map walked in `order`
ToJson(tokens, order) ==
    <<Tok("{"), Tok("tokens"), Tok("{")>>
        \o [i \in 1..Len(order) |-> EntryTok(order[i], tokens[order[i]])]
        \o <<Tok("}"), Tok("}")>>

RECURSIVE CollectEntries(_, _)
CollectEntries(toks, acc) ==
    IF Len(toks) = 0 THEN acc
    ELSE CollectEntries(Tail(toks), Insert(acc, toks[1].k, toks[1].v))

\* serde_json::from_str::<TokenDatabase>
FromJson(text) ==
    LET n == Len(text)
        wellFormed ==
            /\ n >= 5
            /\ text[1].t = "{" /\ text[2].t = "tokens" /\ text[3].t = "{"
            /\ text[n - 1].t = "}" /\ text[n].t = "}"
            /\ \A i \in 4..(n - 2) : text[i].t = "entry"
    IN  IF wellFormed
        THEN [ok |-> TRUE, tokens |-> CollectEntries(SubSeq(text, 4, n - 2), EmptyTokens)]
        ELSE [ok |-> FALSE, tokens |-> EmptyTokens]

NoEntry == [present |-> FALSE, text |-> <<>>]
Present(text) == [present |-> TRUE, text |-> text]
\* a document cut off after its first key
MalformedText == <<Tok("{"), Tok("tokens")>>

\* keyring_entry.get_password() on the medium `entry`; `answers` is whether
\* the credential store can be reached
get_password(entry, answers) ==
    IF ~answers THEN [ok |-> FALSE, read |-> "unavailable", content |-> <<>>]
    ELSE IF ~entry.present THEN [ok |-> FALSE, read |-> "NoEntry", content |-> <<>>]
    ELSE [ok |-> TRUE, read |-> "ok", content |-> entry.text]

Closed == [open |-> FALSE, master_key |-> <<>>, database |-> EmptyTokens]
Opened(key, tokens) == [open |-> TRUE, master_key |-> key, database |-> tokens]

\* What a call does: its Result (Ok(val) or Err(err)), the TokenStorage it
\* leaves, and its traffic with the medium.  verify is what
\* verify_master_key returned ("none": not called), decrypts the number of
\* calls of CryptoManager::decrypt, read/write what get_password and
\* set_password answered ("none": not called), content the text written.
Effect(ok, err, val, verify, decrypts, self, read, write, content) ==
    [ok |-> ok, err |-> err, val |-> val, verify |-> verify, decrypts |-> decrypts,
     self |-> self, read |-> read, write |-> write, content |-> content]

\* load with the parse error swallowed like a missing entry
load_lenient(got) ==
    IF got.ok
    THEN [ok |-> TRUE, err |-> "", tokens |-> FromJson(got.content).tokens]
    ELSE [ok |-> TRUE, err |-> "", tokens |-> EmptyTokens]

\* TokenStorage::load on the answer `got` of get_password
load(got) ==
    IF got.ok
    THEN LET parsed == FromJson(got.content)
         IN  IF parsed.ok THEN [ok |-> TRUE, err |-> "", tokens |-> parsed.tokens]
             ELSE [ok |-> FALSE, err |-> "CorruptStore", tokens |-> EmptyTokens]
    ELSE [ok |-> TRUE, err |-> "", tokens |-> EmptyTokens]

\* TokenStorage::save; `written` is whether set_password succeeds
save(self, written, order) ==
    IF written THEN [ok |-> TRUE, write |-> "ok", content |-> ToJson(self.database, order)]
    ELSE [ok |-> FALSE, write |-> "failed", content |-> <<>>]

\* TokenStorage::new: derive the key from the typed secret, load, save
new(input, got, written, order) ==
    LET loaded == load(got)
        self == Opened(derive_master_key(input), loaded.tokens)
        saved == save(self, written, order)
    IN  IF ~loaded.ok
        THEN Effect(FALSE, loaded.err, FALSE, "none", 0, Closed, got.read, "none", <<>>)
        ELSE IF ~saved.ok
        THEN Effect(FALSE, "MediumUnavailable", FALSE, "none", 0, Closed, got.read,
                    saved.write, <<>>)
        ELSE Effect(TRUE, "", FALSE, "none", 0, self, got.read, saved.write, saved.content)

\* store_token inserting the token itself instead of encrypted_token
store_token_plain(self, name, token, nonce_bytes, written, order) ==
    LET inserted == [self EXCEPT !.database = Insert(self.database, name, token)]
        saved == save(inserted, written, order)
    IN  IF ~saved.ok
        THEN Effect(FALSE, "MediumUnavailable", FALSE, "none", 0, inserted, "none",
                    saved.write, <<>>)
        ELSE Effect(TRUE, "", FALSE, "none", 0, inserted, "none", saved.write, saved.content)

\* store_token persisting only the entry it inserted
store_token_fresh(self, name, token, nonce_bytes, written, order) ==
    LET encrypted_token == CryptoEncrypt(self.master_key, token, nonce_bytes)
        inserted == [self EXCEPT !.database = Insert(EmptyTokens, name, encrypted_token)]
        saved == save(inserted, written, <<name>>)
    IN  IF ~saved.ok THEN Effect(FALSE, "MediumUnavailable", FALSE, "none", 0, inserted, "none", saved.write, <<>>)
        ELSE Effect(TRUE, "", FALSE, "none", 0, inserted, "none", saved.write, saved.content)

store_token_entry_only(self, name, token, nonce_bytes, written, order) ==
    LET encrypted_token == CryptoEncrypt(self.master_key, token, nonce_bytes)
        inserted == [self EXCEPT !.database = Insert(self.database, name, encrypted_token)]
        entry == [self EXCEPT !.database = Insert(EmptyTokens, name, encrypted_token)]
        saved == save(entry, written, <<name>>)
    IN  IF ~saved.ok
        THEN Effect(FALSE, "MediumUnavailable", FALSE, "none", 0, inserted, "none",
                    saved.write, <<>>)
        ELSE Effect(TRUE, "", FALSE, "none", 0, inserted, "none", saved.write, saved.content)

\* TokenStorage::store_token
store_token(self, name, token, nonce_bytes, written, order) ==
    LET encrypted_token == CryptoEncrypt(self.master_key, token, nonce_bytes)
        inserted == [self EXCEPT !.database = Insert(self.database, name, encrypted_token)]
        saved == save(inserted, written, order)
    IN  IF ~saved.ok
        THEN Effect(FALSE, "MediumUnavailable", FALSE, "none", 0, inserted, "none",
                    saved.write, <<>>)
        ELSE Effect(TRUE, "", FALSE, "none", 0, inserted, "none", saved.write, saved.content)

None == [some |-> FALSE, text |-> <<>>]
Some(text) == [some |-> TRUE, text |-> text]

\* get_token treating an absent name as an error
get_token_strict(self, name) ==
    IF name \in DOMAIN self.database
    THEN LET d == CryptoDecrypt(self.master_key, self.database[name])
         IN  IF ~d.ok THEN Effect(FALSE, d.err, None, "none", 1, self, "none", "none", <<>>)
             ELSE Effect(TRUE, "", Some(d.text), "none", 1, self, "none", "none", <<>>)
    ELSE Effect(FALSE, "NotFound", None, "none", 0, self, "none", "none", <<>>)

\* TokenStorage::get_token
get_token(self, name) ==
    IF name \in DOMAIN self.database
    THEN LET d == CryptoDecrypt(self.master_key, self.database[name])
         IN  IF ~d.ok THEN Effect(FALSE, d.err, None, "none", 1, self, "none", "none", <<>>)
             ELSE Effect(TRUE, "", Some(d.text), "none", 1, self, "none", "none", <<>>)
    ELSE Effect(TRUE, "", None, "none", 0, self, "none", "none", <<>>)

\* What self.database.tokens.iter().next() may yield: any key, "" for None
Picks(tokens) == IF DOMAIN tokens = {} THEN {""} ELSE DOMAIN tokens

\* verify_master_key without the is_empty() check
verify_master_key_unguarded(self, pick) ==
    IF pick # ""
    THEN [ok |-> TRUE, err |-> "",
          val |-> IF CryptoDecrypt(self.master_key, self.database[pick]).ok
                  THEN "true" ELSE "false",
          decrypts |-> 1]
    ELSE [ok |-> FALSE, err |-> "IncorrectMasterKey", val |-> "none", decrypts |-> 0]

\* TokenStorage::verify_master_key, the iterator yielding `pick` first
verify_master_key(self, pick) ==
    IF DOMAIN self.database = {}
    THEN [ok |-> FALSE, err |-> "EmptyStore", val |-> "empty", decrypts |-> 0]
    ELSE IF pick # ""
    THEN [ok |-> TRUE, err |-> "",
          val |-> IF CryptoDecrypt(self.master_key, self.database[pick]).ok
                  THEN "true" ELSE "false",
          decrypts |-> 1]
    ELSE [ok |-> FALSE, err |-> "IncorrectMasterKey", val |-> "none", decrypts |-> 0]

\* TokenStorage::list_tokens
list_tokens(self, pick) ==
    LET v == verify_master_key(self, pick)
    IN  IF ~v.ok
        THEN Effect(FALSE, v.err, {}, v.val, v.decrypts, self, "none", "none", <<>>)
        ELSE Effect(TRUE, "", DOMAIN self.database, v.val, v.decrypts, self,
                    "none", "none", <<>>)

\* delete_token without the save after a removal
delete_token_unsaved(self, name, pick, written, order) ==
    LET v == verify_master_key(self, pick)
        removed == name \in DOMAIN self.database
        after == [self EXCEPT !.database = Remove(self.database, name)]
    IN  IF ~v.ok
        THEN Effect(FALSE, v.err, FALSE, v.val, v.decrypts, self, "none", "none", <<>>)
        ELSE Effect(TRUE, "", removed, v.val, v.decrypts, after, "none", "none", <<>>)

\* delete_token treating an absent name as an error
delete_token_strict(self, name, pick, written, order) ==
    LET v == verify_master_key(self, pick)
        removed == name \in DOMAIN self.database
        after == [self EXCEPT !.database = Remove(self.database, name)]
        saved == save(after, written, order)
    IN  IF ~v.ok
        THEN Effect(FALSE, v.err, FALSE, v.val, v.decrypts, self, "none", "none", <<>>)
        ELSE IF ~removed
        THEN Effect(FALSE, "NotFound", FALSE, v.val, v.decrypts, self, "none", "none", <<>>)
        ELSE IF ~saved.ok
        THEN Effect(FALSE, "MediumUnavailable", FALSE, v.val, v.decrypts, after, "none",
                    saved.write, <<>>)
        ELSE Effect(TRUE, "", TRUE, v.val, v.decrypts, after, "none", saved.write,
                    saved.content)

\* TokenStorage::delete_token
delete_token(self, name, pick, written, order) ==
    LET v == verify_master_key(self, pick)
        removed == name \in DOMAIN self.database
        after == [self EXCEPT !.database = Remove(self.database, name)]
        saved == save(after, written, order)
    IN  IF ~v.ok
        THEN Effect(FALSE, v.err, FALSE, v.val, v.decrypts, self, "none", "none", <<>>)
        ELSE IF ~removed
        THEN Effect(TRUE, "", FALSE, v.val, v.decrypts, self, "none", "none", <<>>)
        ELSE IF ~saved.ok
        THEN Effect(FALSE, "MediumUnavailable", FALSE, v.val, v.decrypts, after, "none",
                    saved.write, <<>>)
        ELSE Effect(TRUE, "", TRUE, v.val, v.decrypts, after, "none", saved.write,
                    saved.content)

\* The loop of populate_tokens_to_child over the map in `order`: the
\* environment built so far, stopping at the first Envelope that fails.
RECURSIVE DecryptAll(_, _, _, _, _)
DecryptAll(self, order, i, env, n) ==
    IF i > Len(order) THEN [ok |-> TRUE, err |-> "", env |-> env, decrypts |-> n]
    ELSE LET d == CryptoDecrypt(self.master_key, self.database[order[i]])
         IN  IF ~d.ok THEN [ok |-> FALSE, err |-> d.err, env |-> EmptyTokens, decrypts |-> n + 1]
             ELSE DecryptAll(self, order, i + 1, Insert(env, order[i], d.text), n + 1)

NoChild == [spawned |-> FALSE, env |-> EmptyTokens]

\* populate_tokens_to_child leaving out the Envelopes that do not decrypt
populate_tokens_to_child_skipping(self, pick, order, started) ==
    LET v == verify_master_key(self, pick)
        good == {n \in DOMAIN self.database :
                    CryptoDecrypt(self.master_key, self.database[n]).ok}
        env == [n \in good |-> CryptoDecrypt(self.master_key, self.database[n]).text]
    IN  IF ~v.ok
        THEN Effect(FALSE, v.err, NoChild, v.val, v.decrypts, self, "none", "none", <<>>)
        ELSE IF ~started
        THEN Effect(FALSE, "SpawnFailure", NoChild, v.val, v.decrypts + Len(order), self,
                    "none", "none", <<>>)
        ELSE Effect(TRUE, "", [spawned |-> TRUE, env |-> env], v.val,
                    v.decrypts + Len(order), self, "none", "none", <<>>)

\* TokenStorage::populate_tokens_to_child; val is the child shell and the
\* secrets put in its environment, `started` whether spawn succeeds
populate_tokens_to_child(self, pick, order, started) ==
    LET v == verify_master_key(self, pick)
        all == DecryptAll(self, order, 1, EmptyTokens, 0)
    IN  IF ~v.ok
        THEN Effect(FALSE, v.err, NoChild, v.val, v.decrypts, self, "none", "none", <<>>)
        ELSE IF ~all.ok
        THEN Effect(FALSE, all.err, NoChild, v.val, v.decrypts + all.decrypts, self,
                    "none", "none", <<>>)
        ELSE IF ~started
        THEN Effect(FALSE, "SpawnFailure", NoChild, v.val, v.decrypts + all.decrypts, self,
                    "none", "none", <<>>)
        ELSE Effect(TRUE, "", [spawned |-> TRUE, env |-> all.env], v.val,
                    v.decrypts + all.decrypts, self, "none", "none", <<>>)

\* ---------------------------------------------------------------- processes
Init ==
    /\ keyring \in {NoEntry, Present(MalformedText)}
    /\ storage = [p \in Procs |-> Closed]
    /\ last = [proc |-> "", op |-> "init", name |-> "", token |-> <<>>, ok |-> TRUE, err |-> "",
               val |-> FALSE, verify |-> "none", decrypts |-> 0,
               read |-> "none", write |-> "none"]
    /\ nOps = 0
    /\ cipher = [pc |-> "idle"]

\* Process p has made the call `op` on (name, token) with effect e.
Apply(p, op, name, token, e) ==
    /\ nOps' = nOps + 1
    /\ UNCHANGED cipher
    /\ storage' = [storage EXCEPT ![p] = e.self]
    /\ keyring' = IF e.write = "ok" THEN Present(e.content) ELSE keyring
    /\ last' = [proc |-> p, op |-> op, name |-> name, token |-> token,
                ok |-> e.ok, err |-> e.err,
                val |-> e.val, verify |-> e.verify, decrypts |-> e.decrypts,
                read |-> e.read, write |-> e.write]

\* The orders save may serialize the keys S in, when it is reached at all.
SaveOrders(reached, S) == IF reached THEN Orders(S) ELSE {<<>>}

New(p) ==
    /\ ~storage[p].open
    /\ nOps < MaxOps
    /\ \E input \in Secrets, answers \in BOOLEAN, written \in BOOLEAN :
        LET got == get_password(keyring, answers)
        IN  \E order \in SaveOrders(written, DOMAIN load(got).tokens) :
                Apply(p, "new", "", <<>>, new(input, got, written, order))

StoreToken(p) ==
    /\ storage[p].open
    /\ nOps < MaxOps
    /\ \E name \in Names, token \in Plaintexts, nonce_bytes \in Nonces, written \in BOOLEAN :
        \E order \in SaveOrders(written, DOMAIN storage[p].database \cup {name}) :
            Apply(p, "store_token", name, token,
                  store_token(storage[p], name, token, nonce_bytes, written, order))

GetToken(p) ==
    /\ storage[p].open
    /\ nOps < MaxOps
    /\ \E name \in Names : Apply(p, "get_token", name, <<>>, get_token(storage[p], name))

ListTokens(p) ==
    /\ storage[p].open
    /\ nOps < MaxOps
    /\ \E pick \in Picks(storage[p].database) :
        Apply(p, "list_tokens", "", <<>>, list_tokens(storage[p], pick))

DeleteToken(p) ==
    /\ storage[p].open
    /\ nOps < MaxOps
    /\ \E name \in Names, pick \in Picks(storage[p].database), written \in BOOLEAN :
        \E order \in SaveOrders(written, DOMAIN storage[p].database \ {name}) :
            Apply(p, "delete_token", name, <<>>,
                  delete_token(storage[p], name, pick, written, order))

PopulateTokensToChild(p) ==
    /\ storage[p].open
    /\ nOps < MaxOps
    /\ \E pick \in Picks(storage[p].database), started \in BOOLEAN :
        \E order \in Orders(DOMAIN storage[p].database) :
            Apply(p, "populate_tokens_to_child", "", <<>>,
                  populate_tokens_to_child(storage[p], pick, order, started))

\* main returns: the process and its TokenStorage are gone
Exit(p) ==
    /\ storage[p].open
    /\ nOps < MaxOps
    /\ Apply(p, "exit", "", <<>>,
             Effect(TRUE, "", FALSE, "none", 0, Closed, "none", "none", <<>>))

Next ==
    \E p \in Procs :
        \/ New(p)
        \/ StoreToken(p)
        \/ GetToken(p)
        \/ ListTokens(p)
        \/ DeleteToken(p)
        \/ PopulateTokensToChild(p)
        \/ Exit(p)

Spec == Init /\ [][Next]_vars

\* ------------------------------------------- crypto.rs, statement by statement
\* One CryptoManager (master_key `key`) encrypts, and a CryptoManager with
\* master_key `dkey` decrypts what it is handed: the Envelope just made, or
\* a blob that comes from elsewhere.  aead and utf8 count the calls of
\* cipher.decrypt and String::from_utf8.

\* "", "1", "bar", "é" and a four-byte character
CipherPlaintexts == Plaintexts \cup {<<>>, <<195, 169>>, <<240, 159, 148, 145>>}

\* "not_base64" (tests::decrypt_invalid_data)
NotBase64 == <<39, 40, 45, BadChar, 27, 26, 44, 30, 58, 56>>

\* An Envelope with its first character replaced by 'X' (tests::decrypt_corrupted_data)
Corrupted(blob) == [i \in 1..Len(blob) |-> IF i = 1 THEN (IF blob[1] = 23 THEN 24 ELSE 23) ELSE blob[i]]

\* Blobs that encrypt did not make: no base64, base64 of fewer than 12
\* bytes, a bare nonce, a corrupted Envelope, and bytes that are not UTF-8
\* sealed under a key of the model.
ForeignBlobs ==
    {NotBase64, <<BadChar, 0, 0, 0>>, Base64Encode(<<1, 2, 3>>),
     Base64Encode([i \in 1..(NonceLen - 1) |-> i]), Base64Encode([i \in 1..NonceLen |-> i])}
    \cup {Corrupted(e) : e \in Envelopes}
    \cup {Base64Encode(n \o AeadEncrypt(k, n, <<255>>)) : k \in Keys, n \in Nonces}

CipherCall(pc, key, dkey, plaintext, nonce_bytes, made, encrypted_data) ==
    [pc |-> pc, key |-> key, dkey |-> dkey, plaintext |-> plaintext,
     nonce_bytes |-> nonce_bytes, made |-> made, encrypted_data |-> encrypted_data,
     encrypted_bytes |-> <<>>, plain |-> <<>>, aead |-> 0, utf8 |-> 0,
     result |-> [ok |-> FALSE, err |-> "", text |-> <<>>]]

CryptoInit ==
    /\ keyring = NoEntry
    /\ storage = [p \in Procs |-> Closed]
    /\ last = [proc |-> "", op |-> "init", name |-> "", token |-> <<>>, ok |-> TRUE, err |-> "",
               val |-> FALSE, verify |-> "none", decrypts |-> 0,
               read |-> "none", write |-> "none"]
    /\ nOps = 0
    /\ \/ \E key \in Keys, dkey \in Keys, plaintext \in CipherPlaintexts, nonce_bytes \in Nonces :
            cipher = CipherCall("encrypt", key, dkey, plaintext, nonce_bytes, TRUE, <<>>)
       \/ \E dkey \in Keys, blob \in ForeignBlobs :
            cipher = CipherCall("decode", dkey, dkey, <<>>, <<>>, FALSE, blob)

Finish(result) == cipher' = [cipher EXCEPT !.pc = "done", !.result = result]

\* CryptoManager::encrypt
Encrypt ==
    /\ cipher.pc = "encrypt"
    /\ cipher' = [cipher EXCEPT
                    !.pc = "decode",
                    !.encrypted_data = encrypt(cipher.key, cipher.plaintext, cipher.nonce_bytes)]
    /\ UNCHANGED <<keyring, storage, last, nOps>>

\* CryptoManager::decrypt, the base64 decode and its map_err
DecryptDecode ==
    /\ cipher.pc = "decode"
    /\ LET dec == Base64Decode(cipher.encrypted_data)
       IN  IF ~dec.ok THEN Finish(Failure("MalformedEnvelope"))
           ELSE cipher' = [cipher EXCEPT !.pc = "length", !.encrypted_bytes = dec.bytes]
    /\ UNCHANGED <<keyring, storage, last, nOps>>

\* decrypt handing every decoded blob to the AEAD, whatever its length
DecryptLength_unchecked ==
    /\ cipher.pc = "length"
    /\ cipher' = [cipher EXCEPT !.pc = "aead"]
    /\ UNCHANGED <<keyring, storage, last, nOps>>

\* CryptoManager::decrypt, the length check
DecryptLength ==
    /\ cipher.pc = "length"
    /\ IF Len(cipher.encrypted_bytes) < NonceLen THEN Finish(Failure("MalformedEnvelope"))
       ELSE cipher' = [cipher EXCEPT !.pc = "aead"]
    /\ UNCHANGED <<keyring, storage, last, nOps>>

\* CryptoManager::decrypt, split_at(12) and cipher.decrypt
DecryptAead ==
    /\ cipher.pc = "aead"
    /\ LET nonce_bytes == SubSeq(cipher.encrypted_bytes, 1, NonceLen)
           ciphertext == SubSeq(cipher.encrypted_bytes, NonceLen + 1, Len(cipher.encrypted_bytes))
           plain == AeadDecrypt(cipher.dkey, nonce_bytes, ciphertext)
       IN  IF ~plain.ok
           THEN cipher' = [cipher EXCEPT !.pc = "done", !.aead = @ + 1,
                                         !.result = Failure("AuthenticationFailure")]
           ELSE cipher' = [cipher EXCEPT !.pc = "utf8", !.aead = @ + 1, !.plain = plain.bytes]
    /\ UNCHANGED <<keyring, storage, last, nOps>>

\* CryptoManager::decrypt, String::from_utf8
DecryptUtf8 ==
    /\ cipher.pc = "utf8"
    /\ IF ~IsUtf8(cipher.plain)
       THEN cipher' = [cipher EXCEPT !.pc = "done", !.utf8 = @ + 1,
                                     !.result = Failure("EncodingFailure")]
       ELSE cipher' = [cipher EXCEPT !.pc = "done", !.utf8 = @ + 1,
                                     !.result = [ok |-> TRUE, err |-> "", text |-> cipher.plain]]
    /\ UNCHANGED <<keyring, storage, last, nOps>>

CryptoNext == Encrypt \/ DecryptDecode \/ DecryptLength \/ DecryptAead \/ DecryptUtf8

CryptoSpec == CryptoInit /\ [][CryptoNext]_vars

\* ------------------------------------------------------------------ claims
\* In this step process p made the call `op`.
Called(p, op) == nOps' = nOps + 1 /\ last'.proc = p /\ last'.op = op

\* What get(n) returns on the store `self`: Ok(val) or Err(err)
Returned(e) == <<e.ok, e.err, e.val>>

\* The (name, plaintext) pairs a store holds, as get reports them
Pairs(self) == {<<n, Returned(get_token(self, n))>> : n \in DOMAIN self.database}

\* The Document the medium holds, decoded
Persisted(entry) == FromJson(entry.text)

\* C1: after put(n, t) succeeds, get(n) on the same store returns Some(t),
\* and every following operation of any process other than a put or delete
\* of n on that store leaves what get(n) returns as it was.
C1_PutThenGet ==
    [][\A p \in Procs, n \in Names :
        /\ (Called(p, "store_token") /\ last'.name = n /\ last'.ok)
            => Returned(get_token(storage'[p], n)) = <<TRUE, "", Some(last'.token)>>
        /\ ( /\ storage[p].open /\ storage'[p].open
             /\ get_token(storage[p], n).val.some
             /\ ~(\E op \in {"store_token", "delete_token"} : Called(p, op) /\ last'.name = n) )
            => Returned(get_token(storage'[p], n)) = Returned(get_token(storage[p], n))
      ]_vars

\* C1 witness: foo was put, then baz was put and deleted again, and get(foo)
\* still returns the plaintext put.
C1_Witness ==
    /\ last.op = "delete_token" /\ last.name = "baz" /\ last.ok /\ last.val = TRUE
    /\ Returned(get_token(storage[last.proc], "foo")) = <<TRUE, "", Some(<<98, 97, 114>>)>>

\* C2 (as claimed): when verification finds that the picked Envelope does
\* not decrypt under the store's key, delete fails and changes neither the
\* in-memory Document nor the medium.
C2_WrongKeyDeleteRefused ==
    [][\A p \in Procs :
        (Called(p, "delete_token") /\ last'.verify = "false")
            => (~last'.ok /\ storage' = storage /\ keyring' = keyring)
      ]_vars

\* C3 (as claimed): when verification finds that the picked Envelope does
\* not decrypt under the store's key, list signals an error and returns no
\* names.
C3_WrongKeyListRefused ==
    (last.op = "list_tokens" /\ last.verify = "false") => ~last.ok

\* C4: on a store whose Document is empty, list, delete and export_all
\* signal EmptyStore, call decrypt not once, and change neither the
\* Document nor the medium.
C4_EmptyStoreGate ==
    [][\A p \in Procs :
        ( /\ \E op \in {"list_tokens", "delete_token", "populate_tokens_to_child"} :
                Called(p, op)
          /\ DOMAIN storage[p].database = {} )
            => /\ ~last'.ok /\ last'.err = "EmptyStore"
               /\ last'.decrypts = 0
               /\ storage' = storage /\ keyring' = keyring
      ]_vars

\* C4 witness: export_all was called on an empty store whose medium holds
\* a document, and was refused with EmptyStore.
C4_Witness ==
    /\ last.op = "populate_tokens_to_child" /\ last.err = "EmptyStore"
    /\ DOMAIN storage[last.proc].database = {}
    /\ keyring.present

\* C5: when verification succeeds and the medium takes the write, delete(n)
\* of a present n returns true, get(n) then returns None, and the Document
\* in the medium is the store's previous Document without n.
C5_DeletePresent ==
    [][\A p \in Procs, n \in Names :
        ( /\ Called(p, "delete_token") /\ last'.name = n
          /\ n \in DOMAIN storage[p].database
          /\ last'.verify = "true" /\ last'.write # "failed" )
            => /\ last'.ok /\ last'.val = TRUE
               /\ Returned(get_token(storage'[p], n)) = <<TRUE, "", None>>
               /\ keyring'.present /\ Persisted(keyring').ok
               /\ Persisted(keyring').tokens = Remove(storage[p].database, n)
      ]_vars

\* C5 witness: one of two names was deleted and the other is still in the
\* medium.
C5_Witness ==
    /\ last.op = "delete_token" /\ last.name = "foo" /\ last.ok /\ last.val = TRUE
    /\ DOMAIN Persisted(keyring).tokens = {"baz"}

\* C6: when verification succeeds, delete(n) of an absent n returns
\* Ok(false) and changes neither the in-memory Document nor the medium.
C6_DeleteAbsent ==
    [][\A p \in Procs, n \in Names :
        ( /\ Called(p, "delete_token") /\ last'.name = n
          /\ n \notin DOMAIN storage[p].database
          /\ last'.verify = "true" )
            => /\ last'.ok /\ last'.val = FALSE
               /\ storage' = storage /\ keyring' = keyring
      ]_vars

\* C6 witness: delete of a name absent from a non-empty store returned
\* Ok(false).
C6_Witness ==
    /\ last.op = "delete_token" /\ last.ok /\ last.val = FALSE /\ last.verify = "true"
    /\ last.name \notin DOMAIN storage[last.proc].database
    /\ DOMAIN storage[last.proc].database # {}

\* C7: get never changes the Document or the medium, and get(n) of an
\* absent n returns Ok(None) without verification or decryption, whatever
\* the key and also on an empty store.
C7_GetAbsent ==
    [][\A p \in Procs, n \in Names :
        (Called(p, "get_token") /\ last'.name = n)
            => /\ storage' = storage /\ keyring' = keyring
               /\ (n \notin DOMAIN storage[p].database
                    => /\ last'.ok /\ last'.val = None
                       /\ last'.verify = "none" /\ last'.decrypts = 0)
      ]_vars

\* C7 witness: get on an empty store returned Ok(None).
C7_Witness ==
    /\ last.op = "get_token" /\ last.ok /\ last.val = None
    /\ DOMAIN storage[last.proc].database = {}

\* The medium holds exactly the Document of p's store.
InSync(p) ==
    /\ storage[p].open /\ keyring.present
    /\ Persisted(keyring).ok /\ Persisted(keyring).tokens = storage[p].database

\* C8 (as claimed): a successful put or delete leaves the medium holding
\* the store's Document, and a store opened on that medium with the same
\* key holds the same (name, plaintext) pairs.
C8_ReopenSamePairs ==
    [][\A p, q \in Procs :
        /\ ( /\ InSync(p) /\ last'.ok
             /\ (Called(p, "store_token") \/ Called(p, "delete_token")) )
            => InSync(p)'
        /\ ( /\ p # q /\ InSync(p)
             /\ Called(q, "new") /\ last'.ok
             /\ storage'[q].master_key = storage[p].master_key )
            => Pairs(storage'[q]) = Pairs(storage[p])
      ]_vars

\* C9: open on a medium that answers "no entry" succeeds with an empty
\* Document when the medium takes the write; open on a medium that hands
\* back a malformed document signals CorruptStore, constructs no store and
\* leaves the medium as it was.
C9_OpenMissingOrCorrupt ==
    [][\A p \in Procs :
        /\ (Called(p, "new") /\ last'.read = "NoEntry" /\ last'.write # "failed")
            => /\ last'.ok /\ storage'[p].open
               /\ storage'[p].database = EmptyTokens
        /\ (Called(p, "new") /\ last'.read = "ok" /\ ~Persisted(keyring).ok)
            => /\ ~last'.ok /\ last'.err = "CorruptStore"
               /\ storage' = storage /\ keyring' = keyring
      ]_vars

\* C9 witness: open was refused on the malformed document.
C9_Witness ==
    /\ last.op = "new" /\ last.err = "CorruptStore"
    /\ keyring = Present(MalformedText)
    /\ \A p \in Procs : ~storage[p].open

\* C10 (as claimed): when the read of the medium fails for another reason
\* than a missing entry, open signals MediumUnavailable.
C10_ReadFailureSurfaces ==
    (last.op = "new" /\ last.read = "unavailable")
        => (~last.ok /\ last.err = "MediumUnavailable")


\* C11: two stores opened on the same medium write without coordination:
\* whenever a put persists, the medium holds exactly the in-memory Document
\* of the store that wrote, so a name that only another store holds is
\* absent from the medium afterwards.
C11_LastWriterWins ==
    [][\A p, q \in Procs :
        (Called(p, "store_token") /\ last'.ok)
            => /\ keyring'.present /\ Persisted(keyring').ok
               /\ Persisted(keyring').tokens = storage'[p].database
               /\ \A n \in DOMAIN storage[q].database :
                    n \notin DOMAIN storage'[p].database
                        => n \notin DOMAIN Persisted(keyring').tokens
      ]_vars

\* C11 witness: both stores are open, each has put a name, and the medium
\* holds the last writer's Document, without the name the other store put.
C11_Witness ==
    /\ last.op = "store_token" /\ last.ok
    /\ \A p \in Procs : storage[p].open
    /\ Persisted(keyring).tokens = storage[last.proc].database
    /\ \E q \in Procs, n \in Names :
        /\ q # last.proc
        /\ n \in DOMAIN storage[q].database
        /\ n \notin DOMAIN Persisted(keyring).tokens


\* C12: for every key and plaintext, decrypting under the key the Envelope
\* that encrypt made under that key succeeds and returns the plaintext: the
\* decrypt call that follows encrypt with the same master_key ends in
\* Ok(plaintext), and so does decrypt applied to the Envelope as a function.
C12_RoundTrip ==
    (cipher.pc # "idle" /\ cipher.pc # "encrypt" /\ cipher.made)
        => /\ decrypt(cipher.key, cipher.encrypted_data)
                = [ok |-> TRUE, err |-> "", text |-> cipher.plaintext]
           /\ (cipher.pc = "done" /\ cipher.dkey = cipher.key)
                => cipher.result = [ok |-> TRUE, err |-> "", text |-> cipher.plaintext]

C12_Witness ==
    /\ cipher.pc = "done" /\ cipher.made /\ cipher.dkey = cipher.key
    /\ cipher.plaintext = <<240, 159, 148, 145>>
    /\ cipher.result.ok /\ cipher.result.text = cipher.plaintext


\* The keys other than master_key under which encrypt made this Envelope
MadeUnderOther(master_key, envelope) ==
    {k \in Keys \ {master_key} :
        \E t \in Plaintexts, n \in Nonces : EncryptMemo[k, t, n] = envelope}

\* C13: an Envelope made under one key never decrypts under a different key:
\* decrypt signals AuthenticationFailure and returns no plaintext.  So in
\* every store, for every entry whose Envelope was made under a key other
\* than the store's, decrypt fails that way, and a get of that name returns
\* the AuthenticationFailure error, never Some(plaintext).
C13_WrongKeyNeverDecrypts ==
    [][\A p \in Procs, n \in Names :
        (/\ storage[p].open /\ n \in DOMAIN storage[p].database
         /\ MadeUnderOther(storage[p].master_key, storage[p].database[n]) # {})
            => /\ decrypt(storage[p].master_key, storage[p].database[n])
                    = Failure("AuthenticationFailure")
               /\ (Called(p, "get_token") /\ last'.name = n)
                    => Returned(last') = <<FALSE, "AuthenticationFailure", None>>
      ]_vars

C13_Witness ==
    /\ last.op = "get_token" /\ ~last.ok /\ last.err = "AuthenticationFailure"
    /\ storage[last.proc].open /\ last.name \in DOMAIN storage[last.proc].database
    /\ MadeUnderOther(storage[last.proc].master_key, storage[last.proc].database[last.name]) # {}


\* C14: decrypt checks in a fixed order.  A blob that is not base64, or
\* that decodes to fewer than 12 bytes, ends in MalformedEnvelope with the
\* AEAD never invoked; only blobs of at least 12 decoded bytes reach the
\* AEAD; the UTF-8 check runs only after the AEAD has succeeded; and the
\* outcome of the steps is the value of decrypt on that blob.
C14_DecryptOrder ==
    LET dec == Base64Decode(cipher.encrypted_data)
        malformed == ~dec.ok \/ Len(dec.bytes) < NonceLen
    IN  (cipher.pc # "idle" /\ cipher.pc # "encrypt")
            => /\ (cipher.pc \in {"aead", "utf8"} \/ cipher.aead > 0)
                    => ~malformed /\ cipher.encrypted_bytes = dec.bytes
               /\ (cipher.pc = "done" /\ malformed)
                    => /\ cipher.result = Failure("MalformedEnvelope")
                       /\ cipher.aead = 0 /\ cipher.utf8 = 0
               /\ (cipher.pc = "utf8" \/ cipher.utf8 > 0)
                    => /\ cipher.aead = 1
                       /\ AeadDecrypt(cipher.dkey, SubSeq(dec.bytes, 1, NonceLen),
                                      SubSeq(dec.bytes, NonceLen + 1, Len(dec.bytes))).ok
               /\ cipher.pc = "done"
                    => cipher.result = decrypt(cipher.dkey, cipher.encrypted_data)

\* a blob that is base64 of fewer than 12 bytes was refused before the AEAD
C14_Witness ==
    /\ cipher.pc = "done" /\ cipher.result = Failure("MalformedEnvelope")
    /\ Base64Decode(cipher.encrypted_data).ok
    /\ Len(cipher.encrypted_bytes) = NonceLen - 1
    /\ cipher.aead = 0 /\ cipher.utf8 = 0


\* The nonce an Envelope carries: its first 12 decoded bytes
NonceOf(envelope) == SubSeq(Base64Decode(envelope).bytes, 1, NonceLen)

\* C15 as stated: among the Envelopes a store holds that encrypt made under
\* one key, no two carry the same nonce.  The nonce is whatever the RNG
\* returned, and nothing in encrypt excludes a value drawn before.
C15_NoNonceReuse ==
    \A p \in Procs :
        storage[p].open =>
            \A n, m \in DOMAIN storage[p].database :
                (/\ n # m
                 /\ \E k \in Keys : /\ decrypt(k, storage[p].database[n]).ok
                                    /\ decrypt(k, storage[p].database[m]).ok)
                    => NonceOf(storage[p].database[n]) # NonceOf(storage[p].database[m])

\* C15, amended: every Envelope carries the nonce the RNG drew for it, and
\* two encryptions of the same plaintext under the same key yield different
\* encoded blobs whenever the drawn nonces differ; both decrypt to the
\* plaintext under that key.
C15_DistinctNonceDistinctBlob ==
    \A p \in Procs :
        storage[p].open =>
            \A n, m \in DOMAIN storage[p].database :
                \A k \in Keys, t \in Plaintexts, n1, n2 \in Nonces :
                    (/\ n # m
                     /\ storage[p].database[n] = CryptoEncrypt(k, t, n1)
                     /\ storage[p].database[m] = CryptoEncrypt(k, t, n2))
                        => /\ NonceOf(storage[p].database[n]) = n1
                           /\ NonceOf(storage[p].database[m]) = n2
                           /\ n1 # n2 => storage[p].database[n] # storage[p].database[m]
                           /\ CryptoDecrypt(k, storage[p].database[n]).text = t
                           /\ CryptoDecrypt(k, storage[p].database[n]).ok
                           /\ CryptoDecrypt(k, storage[p].database[m]).text = t
                           /\ CryptoDecrypt(k, storage[p].database[m]).ok

\* the same plaintext stored twice under one key with two different nonces
C15_Witness ==
    \E p \in Procs :
        /\ storage[p].open
        /\ DOMAIN storage[p].database = Names
        /\ \E t \in Plaintexts, n1, n2 \in Nonces :
            /\ n1 # n2
            /\ storage[p].database["foo"] = encrypt(storage[p].master_key, t, n1)
            /\ storage[p].database["baz"] = encrypt(storage[p].master_key, t, n2)
            /\ storage[p].database["foo"] # storage[p].database["baz"]


\* C16: put(n, p) changes only the entry for n.  After store_token the
\* store's names are the previous names and n, n maps to one Envelope, of
\* p under the store's key, every other name keeps the Envelope it had,
\* and when the call succeeds the medium holds exactly the resulting
\* Document, all entries of it.
C16_PutFrame ==
    [][\A p \in Procs :
        Called(p, "store_token")
            => /\ DOMAIN storage'[p].database = DOMAIN storage[p].database \cup {last'.name}
               /\ \A m \in DOMAIN storage[p].database :
                    m # last'.name => storage'[p].database[m] = storage[p].database[m]
               /\ CryptoDecrypt(storage[p].master_key, storage'[p].database[last'.name])
                    = [ok |-> TRUE, err |-> "", text |-> last'.token]
               /\ storage'[p].master_key = storage[p].master_key
               /\ last'.write # "none"
               /\ last'.ok => /\ keyring'.present /\ Persisted(keyring').ok
                              /\ Persisted(keyring').tokens = storage'[p].database
      ]_vars

\* a put into a store that holds another name, written out with both
C16_Witness ==
    /\ last.op = "store_token" /\ last.ok
    /\ DOMAIN storage[last.proc].database = Names
    /\ Persisted(keyring).tokens = storage[last.proc].database
    /\ CryptoDecrypt(storage[last.proc].master_key, storage[last.proc].database[last.name]).text
            = last.token


\* C17: populate_tokens_to_child verifies first and then decrypts every
\* Envelope.  On a store with entries the verification has run; if any
\* Envelope does not decrypt under the store's key the call is an error and
\* no child is spawned, so no plaintext reaches it; a call that succeeds
\* has decrypted every Envelope after the verification and has given the
\* child exactly one (name, plaintext) pair per entry.  The store and the
\* medium are left as they were.
C17_ExportAllOrNothing ==
    [][\A p \in Procs :
        Called(p, "populate_tokens_to_child")
            => LET self == storage[p]
                   bad == {n \in DOMAIN self.database :
                            ~CryptoDecrypt(self.master_key, self.database[n]).ok}
               IN  /\ storage' = storage /\ keyring' = keyring
                   /\ DOMAIN self.database # {} => last'.verify \in {"true", "false"}
                   /\ DOMAIN self.database = {}
                        => ~last'.ok /\ last'.err = "EmptyStore" /\ last'.decrypts = 0
                   /\ bad # {} => /\ ~last'.ok /\ last'.val = NoChild
                                  /\ last'.err = "AuthenticationFailure"
                   /\ ~last'.ok => last'.val = NoChild
                   /\ last'.ok
                        => /\ bad = {}
                           /\ last'.val.spawned
                           /\ DOMAIN last'.val.env = DOMAIN self.database
                           /\ \A n \in DOMAIN self.database :
                                last'.val.env[n]
                                    = CryptoDecrypt(self.master_key, self.database[n]).text
                           /\ last'.decrypts = 1 + Cardinality(DOMAIN self.database)
      ]_vars

\* a store opened with another key: its export fails in the loop, no child
C17_Witness ==
    /\ last.op = "populate_tokens_to_child" /\ ~last.ok
    /\ last.err = "AuthenticationFailure" /\ last.val = NoChild
    /\ last.verify = "false"
    /\ DOMAIN storage[last.proc].database # {}


\* C18: in every reachable state all Envelopes of the persisted Document
\* were produced under one master key, so that verify_master_key, which
\* tries the first entry the map's iterator yields, gives the same verdict
\* whichever entry that is.
C18_OneKeyPerDocument ==
    (keyring.present /\ Persisted(keyring).ok)
        => LET tokens == Persisted(keyring).tokens
           IN  /\ DOMAIN tokens # {}
                    => \E k \in Keys : \A n \in DOMAIN tokens : CryptoDecrypt(k, tokens[n]).ok
               /\ \A k \in Keys : \A n, m \in DOMAIN tokens :
                    CryptoDecrypt(k, tokens[n]).ok = CryptoDecrypt(k, tokens[m]).ok

\* C19: open never changes the name-to-Envelope mapping in the medium:
\* when the medium holds a Document, it holds the same mapping after new
\* has returned, Ok or Err, whatever the read returned, a failed read
\* included; a Document with entries is never replaced by an empty one.
C19_OpenKeepsMedium ==
    [][\A p \in Procs :
        (Called(p, "new") /\ keyring.present /\ Persisted(keyring).ok)
            => /\ keyring'.present /\ Persisted(keyring').ok
               /\ Persisted(keyring').tokens = Persisted(keyring).tokens
      ]_vars

\* C20: a put or delete that fails because the write to the medium fails
\* leaves the in-memory Document as it was before the call, so that the
\* store keeps holding what it persisted last.
C20_FailedWriteLeavesMemory ==
    [][\A p \in Procs :
        ((Called(p, "store_token") \/ Called(p, "delete_token"))
            /\ ~last'.ok /\ last'.write = "failed")
                => storage'[p].database = storage[p].database
      ]_vars

====
